---- MODULE Spec2Model ----
(***************************************************************************)
(* Model of generate_gaussian.ipynb: the two sample generators, the        *)
(* module-level generator / discriminator with their optimizers, the       *)
(* train() loop and the evaluation cell.                                   *)
(*                                                                         *)
(* Floating-point tensors are modelled as terms.  A parameter value is the *)
(* sequence of optimizer updates applied to it since construction, a       *)
(* gradient buffer (.grad) is the sequence of backward-pass contributions  *)
(* summed into it since it was last cleared, and a tensor carries `graph`, *)
(* the set of leaf parameters a backward pass through it reaches.  Two     *)
(* equal terms denote bit-identical values.                                *)
(* The shared random source is a counter: every value drawn is named by   *)
(* the state of the source that produced it, so distinct draws are         *)
(* distinct values.                                                        *)
(***************************************************************************)
EXTENDS Integers, Sequences, FiniteSets, TLC

\* ---- bounds (scaled-down sizes and call budgets) ----
BATCH_SZ == 2          \* minibatch size (128 in the notebook)
N == 1                 \* noise dimensionality (10 in the notebook)
EVAL_SAMPLES == 2      \* rows of the evaluation noise batch (10000 in the notebook)
MaxEpochs == 2         \* largest epochs argument passed to train
MaxCalls == 2          \* number of train() calls in one session
MaxEvals == 1          \* number of runs of the evaluation cell
MaxGenCalls == 2       \* number of direct calls of a sample generator
MaxDim == 2            \* largest n_samples / n_dim argument of a direct generator call

\* states the shared random source (np.random) may be in when the session starts
Seeds == {0, 100}

GW == "generator.fc.weight"
GB == "generator.fc.bias"
DW == "discriminator.fc.weight"
DB == "discriminator.fc.bias"

\* generator.parameters() / discriminator.parameters()
generator_parameters == {GW, GB}

discriminator_parameters == {DW, DB}

Params == generator_parameters \cup discriminator_parameters

\* optimizer_gen = SGD(params=generator.parameters(), lr=0.01)
optimizer_gen == [kind |-> "SGD", params |-> generator_parameters]

\* variant: the discriminator's optimizer is built over both networks' parameters
optimizer_disc_all == [kind |-> "Adam", params |-> Params]

\* optimizer_disc = Adam(params=discriminator.parameters(), lr=0.01)
optimizer_disc == [kind |-> "Adam", params |-> discriminator_parameters]

VARIABLES
    rng,               \* np.random's global state: the next value it will draw
    pc,                \* position inside train(), "idle" when no call is active
    calls,             \* epochs arguments of the train() calls made so far
    epochs,            \* train: the epochs argument of the active call
    it,                \* train: items taken from range(epochs) so far
    param,             \* value of each parameter of generator and discriminator
    grad,              \* .grad buffer of each parameter
    adam,              \* optimizer_disc.state: Adam's per-parameter state
    loss_D, loss_G,    \* train: the two loss traces
    noise, real, created, x, y,        \* train: locals of one iteration
    out1, loss_1, out2, loss_2,        \* train: locals of one iteration
    ret,               \* value returned by the last finished train() call
    evals,             \* number of runs of the evaluation cell
    generated_samples, \* module-level result of the evaluation cell
    gcount,            \* number of direct calls of a sample generator
    gcall,             \* last direct call of a sample generator: [fn, n_samples, n_dim]
    gres               \* its outcome

trainLocals == <<noise, real, created, x, y, out1, loss_1, out2, loss_2>>
modelState == <<param, grad, adam>>
genVars == <<gcount, gcall, gres>>
vars == <<rng, pc, calls, epochs, it, param, grad, adam,
          loss_D, loss_G, noise, real, created, x, y, out1, loss_1, out2,
          loss_2, ret, evals, generated_samples, gcount, gcall, gres>>

\* ---- numpy: np.random.randn / np.random.rand ----

\* variant: the two dimensions are swapped
np_random_swapped(dist, d0, d1, r) ==
    IF d0 < 0 \/ d1 < 0
    THEN [status |-> "ValueError", dist |-> dist, shape |-> <<>>, data |-> <<>>, drawn |-> 0]
    ELSE [status |-> "ok", dist |-> dist, shape |-> <<d1, d0>>,
          data |-> [i \in 1..d1 |-> [j \in 1..d0 |-> r + (i - 1) * d0 + (j - 1)]],
          drawn |-> d0 * d1]

\* np.random.<dist>(d0, d1) with the random source in state r: a negative
\* dimension raises ValueError, a zero dimension yields an empty array of that
\* shape; otherwise d0 rows of d1 values, each a fresh draw (a draw is named by
\* the state of the source that produced it)
np_random(dist, d0, d1, r) ==
    IF d0 < 0 \/ d1 < 0
    THEN [status |-> "ValueError", dist |-> dist, shape |-> <<>>, data |-> <<>>, drawn |-> 0]
    ELSE [status |-> "ok", dist |-> dist, shape |-> <<d0, d1>>,
          data |-> [i \in 1..d0 |-> [j \in 1..d1 |-> r + (i - 1) * d1 + (j - 1)]],
          drawn |-> d0 * d1]

generate_gaussian(n_samples, n_dim, r) == np_random("randn", n_samples, n_dim, r)

generate_uniform(n_samples, n_dim, r) == np_random("rand", n_samples, n_dim, r)

\* ---- tensors ----

\* a local that has not been assigned yet
NoTensor == [data |-> <<>>, graph |-> {}]

\* torch.tensor(ndarray): a leaf tensor that does not require grad
torch_tensor(a) == [data |-> a.data, graph |-> {}]

\* tensor.detach(): same data, cut from the autograd graph
detach(t) == [data |-> t.data, graph |-> {}]

\* torch.concat([a, b]) along dim 0
concat(a, b) == [data |-> a.data \o b.data, graph |-> a.graph \cup b.graph]

\* torch.ones((n,1)) / torch.zeros((n,1))
ones(n) == [data |-> [i \in 1..n |-> 1], graph |-> {}]

zeros(n) == [data |-> [i \in 1..n |-> 0], graph |-> {}]

\* one sample drawn by generate_gaussian, as a row of a (n,1) tensor
RealRow(r) == [op |-> "randn", in |-> r, weight |-> <<>>, bias |-> <<>>]

RealTensor(a) == [data |-> [i \in 1..Len(a.data) |-> RealRow(a.data[i])], graph |-> {}]

\* Generator.forward: leaky_relu(fc(x)), one output per input row
Generator_forward(pv, t, grad_enabled) ==
    [data  |-> [i \in 1..Len(t.data) |->
                  [op |-> "leaky_relu(fc)", in |-> t.data[i],
                   weight |-> pv[GW], bias |-> pv[GB]]],
     graph |-> IF grad_enabled THEN t.graph \cup generator_parameters ELSE {}]

\* Discriminator.forward: sigmoid(fc(x)), one output per input row
Discriminator_forward(pv, t) ==
    [data  |-> [i \in 1..Len(t.data) |->
                  [op |-> "sigmoid(fc)", src |-> t.data[i],
                   weight |-> pv[DW], bias |-> pv[DB]]],
     graph |-> t.graph \cup discriminator_parameters]

\* criterion = nn.BCELoss(): a scalar tensor, named by the iteration that made it
criterion(name, out, target) ==
    [id |-> [loss |-> name, call |-> Len(calls), iter |-> it],
     input |-> out.data, target |-> target.data, graph |-> out.graph]

\* loss.backward(): adds d loss / d p to the .grad of every leaf p of the graph
backward(l, g) ==
    [p \in Params |->
        IF p \in l.graph
        THEN Append(g[p], [loss |-> l.id.loss, call |-> l.id.call,
                           iter |-> l.id.iter, wrt |-> p])
        ELSE g[p]]

\* variant: the gradients of both networks are cleared
zero_grad_both(g) == [p \in Params |-> <<>>]

\* module.zero_grad() for the discriminator
discriminator_zero_grad(g) ==
    [p \in Params |-> IF p \in discriminator_parameters THEN <<>> ELSE g[p]]

\* optimizer.step(): every parameter of the optimizer's group whose .grad is
\* set moves by an update computed from that .grad
optimizer_step(opt, pv, gr) ==
    [p \in Params |->
        IF p \in opt.params /\ gr[p] # <<>>
        THEN Append(pv[p], [opt |-> opt.kind, grad |-> gr[p]])
        ELSE pv[p]]

\* optimizer.step(): Adam's step count and moment estimates (SGD without
\* momentum keeps no state)
optimizer_state(opt, st, gr) ==
    [p \in Params |->
        IF opt.kind = "Adam" /\ p \in opt.params /\ gr[p] # <<>>
        THEN [step |-> st[p].step + 1,
              exp_avg |-> Append(st[p].exp_avg, gr[p]),
              exp_avg_sq |-> Append(st[p].exp_avg_sq, gr[p])]
        ELSE st[p]]

\* loss.item, the bound method (the notebook appends it without calling it)
item_method(l) == [type |-> "builtin_function_or_method", self |-> l.id]

\* ---- construction (cell 7) ----

Init ==
    /\ rng \in Seeds
    /\ pc = "idle"
    /\ calls = <<>>
    /\ epochs = 0
    /\ it = 0
    /\ param = [p \in Params |-> <<>>]
    /\ grad = [p \in Params |-> <<>>]
    /\ adam = [p \in Params |-> [step |-> 0, exp_avg |-> <<>>, exp_avg_sq |-> <<>>]]
    /\ loss_D = <<>>
    /\ loss_G = <<>>
    /\ noise = NoTensor /\ real = NoTensor /\ created = NoTensor
    /\ x = NoTensor /\ y = NoTensor
    /\ out1 = NoTensor /\ out2 = NoTensor
    /\ loss_1 = NoTensor /\ loss_2 = NoTensor
    /\ ret = <<>>
    /\ evals = 0
    /\ generated_samples = NoTensor
    /\ gcount = 0
    /\ gcall = [fn |-> "none", n_samples |-> 0, n_dim |-> 0]
    /\ gres = [status |-> "none", dist |-> "none", shape |-> <<>>, data |-> <<>>, drawn |-> 0]

\* ---- train(epochs) ----

\* variant: the traces are not re-created by the call (shared across calls)
TrainCall_shared ==
    /\ pc = "idle"
    /\ Len(calls) < MaxCalls
    /\ \E E \in 0..MaxEpochs :
          /\ epochs' = E
          /\ calls' = Append(calls, E)
    /\ it' = 0
    /\ pc' = "for"
    /\ UNCHANGED <<rng, modelState, loss_D, loss_G, trainLocals, ret, evals,
                   generated_samples, genVars>>

\* call train(E): BATCH_SZ, loss_D = [], loss_G = [], range(epochs) created
TrainCall ==
    /\ pc = "idle"
    /\ Len(calls) < MaxCalls
    /\ \E E \in 0..MaxEpochs :
          /\ epochs' = E
          /\ calls' = Append(calls, E)
    /\ it' = 0
    /\ loss_D' = <<>>
    /\ loss_G' = <<>>
    /\ pc' = "for"
    /\ UNCHANGED <<rng, modelState, trainLocals, ret, evals, generated_samples, genVars>>

\* variant: the discriminator's buffers are not cleared at the head of the loop
LoopHead_keep_grad ==
    /\ pc = "for"
    /\ it < epochs
    /\ it' = it + 1
    /\ pc' = "sample"
    /\ UNCHANGED <<rng, calls, epochs, modelState, loss_D, loss_G,
                   trainLocals, ret, evals, generated_samples, genVars>>

\* variant: the loop runs one iteration too many
LoopHead_one_more ==
    /\ pc = "for"
    /\ it <= epochs
    /\ it' = it + 1
    /\ grad' = discriminator_zero_grad(grad)
    /\ pc' = "sample"
    /\ UNCHANGED <<rng, calls, epochs, param, adam, loss_D, loss_G,
                   trainLocals, ret, evals, generated_samples, genVars>>

\* for _ in tqdm(range(epochs)): next item; discriminator.zero_grad()
LoopHead ==
    /\ pc = "for"
    /\ it < epochs
    /\ it' = it + 1
    /\ grad' = discriminator_zero_grad(grad)
    /\ pc' = "sample"
    /\ UNCHANGED <<rng, calls, epochs, param, adam, loss_D, loss_G,
                   trainLocals, ret, evals, generated_samples, genVars>>

\* noise = torch.tensor(generate_uniform(BATCH_SZ, N)); real = torch.tensor(generate_gaussian(BATCH_SZ, 1))
Sample ==
    /\ pc = "sample"
    /\ LET u == generate_uniform(BATCH_SZ, N, rng)
           g == generate_gaussian(BATCH_SZ, 1, rng + u.drawn)
       IN /\ u.status = "ok" /\ g.status = "ok"
          /\ noise' = torch_tensor(u)
          /\ real' = RealTensor(g)
          /\ rng' = rng + u.drawn + g.drawn
    /\ pc' = "forward"
    /\ UNCHANGED <<calls, epochs, it, modelState, loss_D, loss_G, created, x, y,
                   out1, loss_1, out2, loss_2, ret, evals, generated_samples, genVars>>

\* variant: the generated rows are concatenated before the real rows
BuildXY_fake_first ==
    /\ pc = "forward"
    /\ created' = Generator_forward(param, noise, TRUE)
    /\ x' = concat(detach(created'), real)
    /\ y' = concat(ones(BATCH_SZ), zeros(BATCH_SZ))
    /\ pc' = "disc_backward"
    /\ UNCHANGED <<rng, calls, epochs, it, modelState, loss_D, loss_G, noise, real,
                   out1, loss_1, out2, loss_2, ret, evals, generated_samples, genVars>>

\* created = generator(noise); x = concat([real, created.detach()]); y = concat([ones, zeros])
BuildXY ==
    /\ pc = "forward"
    /\ created' = Generator_forward(param, noise, TRUE)
    /\ x' = concat(real, detach(created'))
    /\ y' = concat(ones(BATCH_SZ), zeros(BATCH_SZ))
    /\ pc' = "disc_backward"
    /\ UNCHANGED <<rng, calls, epochs, it, modelState, loss_D, loss_G, noise, real,
                   out1, loss_1, out2, loss_2, ret, evals, generated_samples, genVars>>

\* out1 = discriminator(x); loss_1 = criterion(out1, y); loss_1.backward()
DiscBackward ==
    /\ pc = "disc_backward"
    /\ out1' = Discriminator_forward(param, x)
    /\ loss_1' = criterion("loss_1", out1', y)
    /\ grad' = backward(loss_1', grad)
    /\ pc' = "disc_step"
    /\ UNCHANGED <<rng, calls, epochs, it, param, adam, loss_D, loss_G,
                   noise, real, created, x, y, out2, loss_2, ret, evals,
                   generated_samples, genVars>>

\* optimizer_disc.step()
DiscStep ==
    /\ pc = "disc_step"
    /\ param' = optimizer_step(optimizer_disc, param, grad)
    /\ adam' = optimizer_state(optimizer_disc, adam, grad)
    /\ pc' = "append_D"
    /\ UNCHANGED <<rng, calls, epochs, it, grad, loss_D, loss_G, trainLocals,
                   ret, evals, generated_samples, genVars>>

\* loss_D.append(loss_1.item)
AppendD ==
    /\ pc = "append_D"
    /\ loss_D' = Append(loss_D, item_method(loss_1))
    /\ pc' = "zero_grad"
    /\ UNCHANGED <<rng, calls, epochs, it, modelState, loss_G, trainLocals, ret, evals,
                   generated_samples, genVars>>

\* discriminator.zero_grad() before the generator update
ZeroGrad ==
    /\ pc = "zero_grad"
    /\ grad' = discriminator_zero_grad(grad)
    /\ pc' = "gen_backward"
    /\ UNCHANGED <<rng, calls, epochs, it, param, adam, loss_D, loss_G,
                   trainLocals, ret, evals, generated_samples, genVars>>

\* variant: the generator loss reuses the discriminator output on the generated
\* rows that was computed before the discriminator step
GenBackward_reuse ==
    /\ pc = "gen_backward"
    /\ out2' = [data  |-> SubSeq(out1.data, BATCH_SZ + 1, 2 * BATCH_SZ),
                graph |-> created.graph \cup discriminator_parameters]
    /\ loss_2' = criterion("loss_2", out2', zeros(BATCH_SZ))
    /\ grad' = backward(loss_2', grad)
    /\ pc' = "gen_step"
    /\ UNCHANGED <<rng, calls, epochs, it, param, adam, loss_D, loss_G,
                   noise, real, created, x, y, out1, loss_1, ret, evals,
                   generated_samples, genVars>>

\* out2 = discriminator(created); loss_2 = criterion(out2, zeros); loss_2.backward()
GenBackward ==
    /\ pc = "gen_backward"
    /\ out2' = Discriminator_forward(param, created)
    /\ loss_2' = criterion("loss_2", out2', zeros(BATCH_SZ))
    /\ grad' = backward(loss_2', grad)
    /\ pc' = "gen_step"
    /\ UNCHANGED <<rng, calls, epochs, it, param, adam, loss_D, loss_G,
                   noise, real, created, x, y, out1, loss_1, ret, evals,
                   generated_samples, genVars>>

\* optimizer_gen.step()
GenStep ==
    /\ pc = "gen_step"
    /\ param' = optimizer_step(optimizer_gen, param, grad)
    /\ adam' = optimizer_state(optimizer_gen, adam, grad)
    /\ pc' = "append_G"
    /\ UNCHANGED <<rng, calls, epochs, it, grad, loss_D, loss_G,
                   trainLocals, ret, evals, generated_samples, genVars>>

\* loss_G.append(loss_2.item)
AppendG ==
    /\ pc = "append_G"
    /\ loss_G' = Append(loss_G, item_method(loss_2))
    /\ pc' = "for"
    /\ UNCHANGED <<rng, calls, epochs, it, modelState, loss_D, trainLocals, ret, evals,
                   generated_samples, genVars>>

\* range(epochs) exhausted: return loss_D, loss_G (the locals go out of scope)
Return ==
    /\ pc = "for"
    /\ ~(it < epochs)
    /\ ret' = <<loss_D, loss_G>>
    /\ noise' = NoTensor /\ real' = NoTensor /\ created' = NoTensor
    /\ x' = NoTensor /\ y' = NoTensor
    /\ out1' = NoTensor /\ out2' = NoTensor
    /\ loss_1' = NoTensor /\ loss_2' = NoTensor
    /\ pc' = "idle"
    /\ UNCHANGED <<rng, calls, epochs, it, modelState, loss_D, loss_G, evals,
                   generated_samples, genVars>>

\* ---- evaluation cell ----

\* variant: the evaluation also clears the gradient buffers
Evaluate_zero_grad ==
    /\ pc = "idle"
    /\ evals < MaxEvals
    /\ LET u == np_random("rand", EVAL_SAMPLES, N, rng)
       IN /\ u.status = "ok"
          /\ generated_samples' = detach(Generator_forward(param, torch_tensor(u), FALSE))
          /\ rng' = rng + u.drawn
    /\ evals' = evals + 1
    /\ grad' = zero_grad_both(grad)
    /\ UNCHANGED <<pc, calls, epochs, it, param, adam, loss_D, loss_G, trainLocals,
                   ret, genVars>>

\* with torch.no_grad(): noise = tensor(np.random.rand(10000, N)); generated_samples = generator(noise).detach()
Evaluate ==
    /\ pc = "idle"
    /\ evals < MaxEvals
    /\ LET u == np_random("rand", EVAL_SAMPLES, N, rng)
       IN /\ u.status = "ok"
          /\ generated_samples' = detach(Generator_forward(param, torch_tensor(u), FALSE))
          /\ rng' = rng + u.drawn
    /\ evals' = evals + 1
    /\ UNCHANGED <<pc, calls, epochs, it, modelState, loss_D, loss_G, trainLocals,
                   ret, genVars>>

TrainStep ==
    \/ LoopHead \/ Sample \/ BuildXY \/ DiscBackward \/ DiscStep \/ AppendD
    \/ ZeroGrad \/ GenBackward \/ GenStep \/ AppendG \/ Return

Next == TrainCall \/ TrainStep \/ Evaluate

Spec == Init /\ [][Next]_vars

\* the interpreter runs an active train() call to completion
FairSpec == Spec /\ WF_vars(TrainStep)

\* ---- direct calls of the sample generators ----

GenFn(fn, s, d, r) ==
    IF fn = "generate_gaussian" THEN generate_gaussian(s, d, r) ELSE generate_uniform(s, d, r)

CallGenerator ==
    /\ gcount < MaxGenCalls
    /\ gcount' = gcount + 1
    /\ \E fn \in {"generate_gaussian", "generate_uniform"}, s \in -1..MaxDim, d \in -1..MaxDim :
        /\ gcall' = [fn |-> fn, n_samples |-> s, n_dim |-> d]
        /\ gres' = GenFn(fn, s, d, rng)
        /\ rng' = rng + gres'.drawn
        /\ UNCHANGED <<pc, calls, epochs, it, modelState, loss_D, loss_G, trainLocals,
                       ret, evals, generated_samples>>

NextGen == CallGenerator

SpecGen == Init /\ [][NextGen]_vars

\* ---- properties ----

AfterBuildXY == {"disc_backward", "disc_step", "append_D", "zero_grad",
                 "gen_backward", "gen_step", "append_G"}
AfterDiscBackward == AfterBuildXY \ {"disc_backward"}
AfterDiscStep == AfterDiscBackward \ {"disc_step"}
AfterAppendD == AfterDiscStep \ {"append_D"}
AfterGenBackward == {"gen_step", "append_G"}

\* C1: train(epochs=E) returns two traces of length exactly E; after k completed
\* iterations both traces have length k, each trace grows by one per iteration,
\* and both start empty on every call.
C1_TraceLengths ==
    /\ pc = "for" => Len(loss_D) = it /\ Len(loss_G) = it
    /\ pc \in {"sample", "forward", "disc_backward", "disc_step", "append_D"}
          => Len(loss_D) = it - 1 /\ Len(loss_G) = it - 1
    /\ pc \in AfterAppendD => Len(loss_D) = it /\ Len(loss_G) = it - 1
    /\ (pc = "idle" /\ calls # <<>>)
          => /\ ret = <<loss_D, loss_G>>
             /\ Len(ret[1]) = calls[Len(calls)]
             /\ Len(ret[2]) = calls[Len(calls)]

\* a second call has returned two traces of length 2 after a first non-empty run
C1_Witness ==
    /\ pc = "idle" /\ Len(calls) = 2 /\ calls[1] >= 1 /\ calls[2] = 2
    /\ Len(ret) = 2 /\ Len(ret[1]) = 2 /\ Len(ret[2]) = 2

\* C2: the discriminator's optimizer step leaves the generator's weight and bias
\* as they were, and the generator's optimizer step leaves the discriminator's
\* weight and bias as they were, in every iteration of every run.
C2_ParameterIsolation ==
    [][ /\ pc = "disc_step"
           => /\ \A p \in generator_parameters : param'[p] = param[p]
              /\ \A p \in discriminator_parameters : param'[p] # param[p]
        /\ pc = "gen_step"
           => /\ \A p \in discriminator_parameters : param'[p] = param[p]
              /\ \A p \in generator_parameters : param'[p] # param[p] ]_vars

\* both steps of a second iteration have been taken, with gradients of the first
\* iteration still in the generator's buffers
C2_Witness ==
    /\ pc = "append_G" /\ it = 2
    /\ Len(param[GW]) >= 2 /\ Len(param[DW]) >= 2
    /\ Len(grad[GW]) >= 2

\* C3: every element of both traces is a scalar loss value, the i-th element
\* being the value of the loss computed in iteration i.
C3_ScalarLosses ==
    /\ \A i \in 1..Len(loss_D) :
          /\ loss_D[i].type = "float"
          /\ loss_D[i].self = [loss |-> "loss_1", call |-> Len(calls), iter |-> i]
    /\ \A i \in 1..Len(loss_G) :
          /\ loss_G[i].type = "float"
          /\ loss_G[i].self = [loss |-> "loss_2", call |-> Len(calls), iter |-> i]

\* C4: the discriminator's input batch has 2*BATCH_SZ rows, the real rows first
\* with label 1, the generated rows after them with label 0, and the label
\* vector is aligned row for row with it.
C4_BatchLabelAlignment ==
    /\ pc \in AfterBuildXY
          => /\ Len(x.data) = 2 * BATCH_SZ
             /\ Len(y.data) = 2 * BATCH_SZ
             /\ \A i \in 1..BATCH_SZ :
                   /\ x.data[i] = real.data[i]
                   /\ x.data[i].op = "randn"
                   /\ y.data[i] = 1
             /\ \A i \in 1..BATCH_SZ :
                   /\ x.data[BATCH_SZ + i] = created.data[i]
                   /\ x.data[BATCH_SZ + i].op = "leaky_relu(fc)"
                   /\ y.data[BATCH_SZ + i] = 0
    /\ pc \in AfterDiscBackward
          => /\ Len(out1.data) = 2 * BATCH_SZ
             /\ \A i \in 1..(2 * BATCH_SZ) : out1.data[i].src = x.data[i]
             /\ loss_1.target = y.data

\* the discriminator loss of a second iteration has been computed on a batch
\* whose real rows differ from each other
C4_Witness ==
    /\ pc = "disc_step" /\ it = 2
    /\ real.data[1] # real.data[BATCH_SZ]
    /\ Len(x.data) = 2 * BATCH_SZ

RECURSIVE SumSeq(_)
SumSeq(q) == IF q = <<>> THEN 0 ELSE q[1] + SumSeq(Tail(q))

\* iterations of the train() calls that returned before the latest call
PrevIters == IF calls = <<>> THEN 0 ELSE SumSeq(SubSeq(calls, 1, Len(calls) - 1))

C6_Counts ==
    /\ it <= epochs
    /\ pc = "idle" => it = epochs
    /\ calls # <<>> => epochs = calls[Len(calls)]
    /\ \A p \in discriminator_parameters :
          /\ adam[p].step = PrevIters + (IF pc \in {"idle", "for"} \cup AfterDiscStep
                                         THEN it ELSE it - 1)
          /\ Len(param[p]) = adam[p].step
    /\ \A p \in generator_parameters :
          Len(param[p]) = PrevIters + (IF pc \in {"idle", "for", "append_G"}
                                       THEN it ELSE it - 1)

C7_EvaluationReadOnly ==
    [][ evals' # evals
          => /\ param' = param /\ grad' = grad /\ adam' = adam
             /\ Len(generated_samples'.data) = EVAL_SAMPLES
             /\ generated_samples'.graph = {}
             /\ \A i \in 1..EVAL_SAMPLES :
                   /\ generated_samples'.data[i].weight = param[GW]
                   /\ generated_samples'.data[i].bias = param[GB] ]_vars

\* the evaluation cell has run on a trained generator whose buffers hold gradients
C7_Witness ==
    /\ evals = 1 /\ pc = "idle"
    /\ Len(generated_samples.data) = EVAL_SAMPLES
    /\ generated_samples.data[1].weight # <<>>
    /\ adam[DW].step > 0 /\ grad[GW] # <<>> /\ grad[DW] # <<>>

\* p with its last update removed
Front(q) == SubSeq(q, 1, Len(q) - 1)

Loss1Grad(p) == [loss |-> "loss_1", call |-> Len(calls), iter |-> it, wrt |-> p]

Loss2Grad(p) == [loss |-> "loss_2", call |-> Len(calls), iter |-> it, wrt |-> p]

\* C8: in every iteration the generator runs once on the freshly drawn noise,
\* before the discriminator step; the generator loss is computed on the same
\* generated rows that were fed to the discriminator update, with the
\* discriminator parameters as they are after that update; the optimizer steps
\* alternate D, G, D, G, ... starting with D.
C8_IterationOrder ==
    /\ pc \in AfterBuildXY
          => \A i \in 1..BATCH_SZ :
                /\ created.data[i].in = noise.data[i]
                /\ created.data[i].weight =
                      (IF pc = "append_G" THEN Front(param[GW]) ELSE param[GW])
                /\ created.data[i].bias =
                      (IF pc = "append_G" THEN Front(param[GB]) ELSE param[GB])
    /\ pc \in AfterDiscBackward
          => \A i \in 1..(2 * BATCH_SZ) :
                out1.data[i].weight =
                   (IF pc = "disc_step" THEN param[DW] ELSE Front(param[DW]))
    /\ pc \in AfterGenBackward
          => /\ Len(out2.data) = BATCH_SZ
             /\ \A i \in 1..BATCH_SZ :
                   /\ out2.data[i].src = created.data[i]
                   /\ out2.data[i].src = x.data[BATCH_SZ + i]
                   /\ out2.data[i].weight = param[DW]
                   /\ out2.data[i].bias = param[DB]
             /\ param[DW][Len(param[DW])].grad = <<Loss1Grad(DW)>>
             /\ loss_2.input = out2.data
             /\ loss_2.id = [loss |-> "loss_2", call |-> Len(calls), iter |-> it]
    /\ adam[DW].step - Len(param[GW]) =
          (IF pc \in AfterDiscStep \ {"append_G"} THEN 1 ELSE 0)

\* the generator loss of a second iteration of a second call has been computed
C8_Witness ==
    /\ pc = "gen_step" /\ it = 2 /\ Len(calls) = 2 /\ calls[1] >= 1
    /\ Len(out2.data) = BATCH_SZ /\ Len(param[DW]) >= 3

\* C9: at every discriminator optimizer step the discriminator's gradient
\* buffers hold exactly the gradient of that iteration's loss_1; the gradient
\* that loss_2.backward deposits in them is cleared before the next
\* discriminator backward pass and is never applied to the discriminator.
C9_DiscGradIsLoss1 ==
    /\ \A p \in discriminator_parameters :
          /\ pc \in {"sample", "forward", "disc_backward", "gen_backward"} => grad[p] = <<>>
          /\ pc \in {"disc_step", "append_D", "zero_grad"} => grad[p] = <<Loss1Grad(p)>>
          /\ pc \in AfterGenBackward => grad[p] = <<Loss2Grad(p)>>
          /\ \A j \in 1..Len(param[p]) :
                /\ Len(param[p][j].grad) = 1
                /\ param[p][j].grad[1].loss = "loss_1"
                /\ param[p][j].grad[1].wrt = p

\* the discriminator is about to step in a second iteration, after the first
\* iteration's generator backward pass wrote into its buffers
C9_Witness ==
    /\ pc = "disc_step" /\ it = 2
    /\ grad[DW] = <<Loss1Grad(DW)>>
    /\ Len(grad[GW]) >= 1 /\ Len(param[DW]) >= 1

\* the loss_2 gradients with respect to p of iterations 1..n of call c
CallGrads(c, n, p) == [k \in 1..n |-> [loss |-> "loss_2", call |-> c, iter |-> k, wrt |-> p]]

\* the loss_2 gradients with respect to p of every backward pass so far, in order
RECURSIVE AllGenGrads(_, _, _)
AllGenGrads(c, last, p) ==
    IF c = 0 THEN <<>>
    ELSE AllGenGrads(c - 1, last, p)
            \o CallGrads(c, IF c = Len(calls) THEN last ELSE calls[c], p)

\* C10: train never clears the generator's gradient buffers: at the generator
\* optimizer step of iteration k they hold the sum of the loss_2 gradients of
\* iterations 1..k and of every earlier train call, and the SGD step applies
\* that accumulated sum.
C10_GenGradAccumulates ==
    \A p \in generator_parameters :
       /\ pc \in {"idle", "for"} \cup AfterGenBackward
             => grad[p] = AllGenGrads(Len(calls), it, p)
       /\ pc \in {"sample", "forward"} \cup (AfterBuildXY \ AfterGenBackward)
             => grad[p] = AllGenGrads(Len(calls), it - 1, p)
       /\ pc = "append_G"
             => param[p][Len(param[p])] =
                   [opt |-> "SGD", grad |-> AllGenGrads(Len(calls), it, p)]

\* the generator is about to step in the second iteration of a second call with
\* the gradients of all earlier iterations still in its buffers
C10_Witness ==
    /\ pc = "gen_step" /\ Len(calls) = 2 /\ calls[1] = 2 /\ it = 2
    /\ Len(grad[GW]) = 4
    /\ grad[GW][1].call = 1 /\ grad[GW][4] = Loss2Grad(GW)

====
